---- MODULE Spec2Model ----
(***************************************************************************)
(* Model of src/meme_generator.py: the MyForm session of the meme          *)
(* generator.  The state is the fields of MyForm plus the two line edits   *)
(* and the canvas label of the UI; every slot connected in __init__ is one *)
(* action.  Qt delivers one event at a time, so each handler is atomic.    *)
(*                                                                         *)
(* An image is a record [file, height, ops]: the file it was decoded from, *)
(* its pixel height and the sequence of text draws burned into it.         *)
(***************************************************************************)
EXTENDS Integers, Sequences, FiniteSets

\* ---------------------------------------------------------------- bounds
\* Longest captions.csv (in rows) the startup is explored with.
MaxRows == 2
\* Tallest image and largest bottom padding of the layout specification.
MaxHeight == 16
MaxBottomPadding == 16

\* ------------------------------------------------------ program constants
DefaultFontSize == 75
DefaultPadding == 20
DefaultTopLeftMargin == 10
DefaultBottomPadding == 20
MinBottomY == 10
StrokeWidth == 2

\* ----------------------------------------------------------- input sets
\* Values the four sliders are moved to.
FontSizes == {DefaultFontSize, 25}
Paddings == {DefaultPadding, 40}
Margins == {DefaultTopLeftMargin, 30}
BottomPaddings == {DefaultBottomPadding, 280}

\* Texts the user types into the two line edits.
UserTexts == {"", "HI"}

\* Files the user can pick or the images folder can hold.  An unreadable
\* file makes Image.open raise.
ImageFiles ==
    { [name |-> "cat", ext |-> ".png",  height |-> 300, readable |-> TRUE],
      [name |-> "dog", ext |-> ".jpg",  height |-> 65,  readable |-> TRUE],
      [name |-> "bad", ext |-> ".png",  height |-> 0,   readable |-> FALSE],
      [name |-> "notes", ext |-> ".txt", height |-> 0,  readable |-> FALSE] }

\* Contents of the images folder when random_gacha lists it.
FolderListings ==
    { {}, { f \in ImageFiles : f.ext = ".txt" }, ImageFiles }

\* The four credentials read from the environment.
CredNames == {"X_API_KEY", "X_API_SECRET", "X_ACCESS_TOKEN", "X_ACCESS_TOKEN_SECRET"}

\* Rows csv.reader yields: a blank line is the empty row.
CsvRows == { <<>>, <<"WOW">>, <<"", "x">>, <<"YAY", "x">> }

RECURSIVE SeqsUpTo(_, _)
SeqsUpTo(S, n) ==
    IF n = 0 THEN { <<>> }
    ELSE LET shorter == SeqsUpTo(S, n - 1)
         IN  shorter \cup { Append(s, x) : s \in { t \in shorter : Len(t) = n - 1 }, x \in S }

\* What is found at captions.csv when the form is constructed.
CaptionFiles ==
    { [status |-> st, rows |-> <<>>] : st \in {"absent", "vanished", "denied", "undecodable"} }
    \cup { [status |-> "ok", rows |-> r] : r \in SeqsUpTo(CsvRows, MaxRows) }

\* --------------------------------------------------------------- helpers
None == [file |-> "", height |-> 0, ops |-> <<>>]

Max(a, b) == IF a >= b THEN a ELSE b

FallbackCaptions ==
    << "LOL SO TRUE!", "EPIC FAIL!", "TOO FUNNY!", "MEME LORD!",
       "VIRAL VIBES!", "SAVAGE MODE!", "YOLO SWAG!", "BIG MOOD!",
       "NO CHILL!", "LMAO FOREVER!", "SPICY MEME!", "BESTIE ENERGY!",
       "ROASTED!", "ICONIC AF!", "SLAY QUEEN!" >>

RECURSIVE FirstColumns(_)
\* [row[0] for row in reader if row]
FirstColumns(rows) ==
    IF rows = <<>> THEN <<>>
    ELSE IF Head(rows) = <<>> THEN FirstColumns(Tail(rows))
    ELSE <<Head(Head(rows))>> \o FirstColumns(Tail(rows))

\* load_captions: the list returned, the message box shown, and the
\* exception that leaves the function ("none" when it returns).
load_captions(f) ==
    IF f.status = "absent"
    THEN [captions |-> FallbackCaptions, msg |-> "Captions file not found", raised |-> "none"]
    ELSE IF f.status = "vanished"
    THEN [captions |-> FallbackCaptions, msg |-> "Failed to load captions", raised |-> "none"]
    ELSE IF f.status = "undecodable"
    THEN [captions |-> FallbackCaptions, msg |-> "Failed to load captions", raised |-> "none"]
    ELSE IF f.status = "denied"
    THEN [captions |-> <<>>, msg |-> "", raised |-> "PermissionError"]
    ELSE IF FirstColumns(f.rows) = <<>>
    THEN [captions |-> FallbackCaptions, msg |-> "Failed to load captions", raised |-> "none"]
    ELSE [captions |-> FirstColumns(f.rows), msg |-> "", raised |-> "none"]

\* Height of draw.textbbox((0, 0), text, font): the truetype font scales
\* with the size, the built-in default font has one fixed height.
TextHeight(fontPath, size) ==
    IF fontPath THEN (size * 4) \div 5 ELSE 11

\* BottomY without the clamp of a negative position.
BottomYUnclamped(imageHeight, textHeight, bottomPadding) ==
    imageHeight - textHeight - bottomPadding

\* y_position of the bottom text.
BottomY(imageHeight, textHeight, bottomPadding) ==
    LET y_position == imageHeight - textHeight - bottomPadding
    IN  IF y_position < 0 THEN Max(MinBottomY, imageHeight - textHeight) ELSE y_position

\* One draw.text call: white fill, black stroke.
DrawText(text, x, y, fontPath, size) ==
    [text |-> text, x |-> x, y |-> y, size |-> IF fontPath THEN size ELSE 0,
     stroke |-> StrokeWidth]

\* The text draws of update_canvas on a copy of base.
render(base, top, bottom, p, fontPath) ==
    LET topOps == IF top # "" THEN <<DrawText(top, p.margin, p.padding, fontPath, p.font_size)>>
                  ELSE <<>>
        botOps == IF bottom # ""
                  THEN <<DrawText(bottom, p.margin,
                                  BottomY(base.height, TextHeight(fontPath, p.font_size),
                                          p.bottom_padding),
                                  fontPath, p.font_size)>>
                  ELSE <<>>
    IN  [file |-> base.file, height |-> base.height, ops |-> base.ops \o topOps \o botOps]

\* CanvasBase drawing on the previous render instead.
CanvasBaseFromImage(img, orig) == img

\* The image update_canvas copies before drawing.
CanvasBase(img, orig) == orig

\* update_canvas: the new self.image, the canvas content and the exception
\* raised ("none" when it returns).  fontOK: ImageFont.truetype succeeds.
update_canvas(img, orig, top, bottom, p, cv, fontPath, fontOK) ==
    IF img = None
    THEN [image |-> img, canvas |-> None, raised |-> "none"]
    ELSE IF fontPath /\ ~fontOK
    THEN [image |-> img, canvas |-> cv, raised |-> "OSError"]
    ELSE LET temp_image == render(CanvasBase(img, orig), top, bottom, p, fontPath)
         IN  [image |-> temp_image, canvas |-> temp_image, raised |-> "none"]

\* LoadFailureImage keeping the image it had.
LoadFailureKeep(img) == img

\* self.image and self.original_image once the except branch of load_image
\* or random_gacha has run.
LoadFailureImage(img) == None

\* HasImage without the test.
HasImageAlways(img) == TRUE

\* "if self.image" of save_image, "if not self.image" of share_to_x.
HasImage(img) == img # None

\* LineEditClear leaving the text in place.
LineEditKeep(text) == text

\* QLineEdit.clear()
LineEditClear(text) == ""

\* Image.open(file).convert("RGBA")
Open(f) == [file |-> f.name, height |-> f.height, ops |-> <<>>]

\* f.endswith((".jpg", ".png"))
Listed(files) == { f \in files : f.ext \in {".jpg", ".png"} }

\* ----------------------------------------------------------------- state
VARIABLES
    image, original_image,          \* self.image, self.original_image
    topText, bottomText,            \* ui.topTextEdit, ui.bottomTextEdit
    current_font_size, current_padding,
    current_top_left_margin, current_bottom_padding,
    canvas,                         \* pixmap of ui.imageCanvas (None: cleared)
    font_path,                      \* TRUE: impact.ttf, FALSE: None
    captions,                       \* self.captions
    captions_csv,                   \* the caption file read at startup
    tweepy,                         \* the tweepy module was imported
    api_keys,                       \* credentials set in the environment
    twitter_client, twitter_api,    \* TRUE: initialised, FALSE: None
    shareEnabled,                   \* ui.shareButton.isEnabled()
    op,                             \* the handler that ran last
    msgs,                           \* message boxes it showed
    effects,                        \* file and network calls it made
    uncaught                        \* exception that left the handler

session == <<image, original_image, topText, bottomText, current_font_size,
             current_padding, current_top_left_margin, current_bottom_padding, canvas>>
startup == <<font_path, captions, captions_csv, tweepy, api_keys,
             twitter_client, twitter_api, shareEnabled>>
vars == <<session, startup, op, msgs, effects, uncaught>>

Params ==
    [font_size |-> current_font_size, padding |-> current_padding,
     margin |-> current_top_left_margin, bottom_padding |-> current_bottom_padding]

\* MyForm.__init__ for one environment: font file present, caption file,
\* tweepy importable, credentials set, and the tweepy call that raises.
Construct(fontExists, csv, tw, keys, initFail) ==
    LET lc == load_captions(csv)
        wantX == tw /\ keys = CredNames
        fontMsg == IF fontExists THEN {} ELSE {"Font file not found"}
        capMsg == IF lc.msg = "" THEN {} ELSE {lc.msg}
        xMsg == IF ~wantX THEN {"X posting disabled"}
                ELSE IF initFail # "none" THEN {"Failed to initialize X API"}
                ELSE {}
    IN  /\ image = None
        /\ original_image = None
        /\ topText = ""
        /\ bottomText = ""
        /\ current_font_size = DefaultFontSize
        /\ current_padding = DefaultPadding
        /\ current_top_left_margin = DefaultTopLeftMargin
        /\ current_bottom_padding = DefaultBottomPadding
        /\ canvas = None
        /\ font_path = fontExists
        /\ captions_csv = csv
        /\ tweepy = tw
        /\ op = "__init__"
        /\ effects = {}
        /\ uncaught = lc.raised
        /\ captions = lc.captions
        /\ IF lc.raised # "none"
           THEN /\ api_keys = {}
                /\ twitter_client = FALSE
                /\ twitter_api = FALSE
                /\ shareEnabled = FALSE
                /\ msgs = fontMsg
           ELSE /\ api_keys = keys
                /\ twitter_client = (wantX /\ initFail # "Client")
                /\ twitter_api = (wantX /\ initFail = "none")
                /\ shareEnabled = (wantX /\ initFail = "none")
                /\ msgs = fontMsg \cup capMsg \cup xMsg

\* Startup environments of the session specification: with and without the
\* font file; posting enabled, or left half-initialised by a failing
\* tweepy.API; a caption file of two rows.
SessionCsv == [status |-> "ok", rows |-> << <<"WOW">>, <<"", "x">> >>]

XEnvironments ==
    { [tweepy |-> TRUE, keys |-> CredNames, initFail |-> "none"],
      [tweepy |-> TRUE, keys |-> CredNames, initFail |-> "API"] }

Init ==
    \E fontExists \in BOOLEAN, x \in XEnvironments :
        Construct(fontExists, SessionCsv, x.tweepy, x.keys, x.initFail)

\* ------------------------------------------------------------- handlers
\* Every handler runs while the process lives: an exception that leaves a
\* slot makes PyQt5 abort the process.
Alive == uncaught = "none"

\* Outcomes of ImageFont.truetype in one update_canvas call.
FontOutcomes == IF font_path THEN BOOLEAN ELSE {TRUE}

\* ui.<edit>.setText(new) with update_canvas connected to textChanged: the
\* slot runs inside setText when the text changes.  s is [image, canvas,
\* raised] so far; an earlier exception has already ended the handler.
TextChangedSlot(s, orig, changed, top, bottom, fontOK) ==
    IF s.raised # "none" \/ ~changed THEN s
    ELSE update_canvas(s.image, orig, top, bottom, Params, s.canvas, font_path, fontOK)

\* load_image with the file dialog returning "" (cancelled).
load_image_cancel ==
    /\ Alive
    /\ op' = "load_image"
    /\ msgs' = {}
    /\ effects' = {}
    /\ UNCHANGED <<session, startup, uncaught>>

\* load_image with the file dialog returning file f.
load_image(f, fontOK) ==
    /\ Alive
    /\ op' = "load_image"
    /\ effects' = {}
    /\ IF ~f.readable
       THEN /\ msgs' = {"Failed to load image: cannot identify image file"}
            /\ image' = LoadFailureImage(image)
            /\ original_image' = LoadFailureImage(original_image)
            /\ UNCHANGED canvas
       ELSE LET r == update_canvas(Open(f), Open(f), topText, bottomText, Params,
                                   canvas, font_path, fontOK)
            IN  IF r.raised # "none"
                THEN /\ msgs' = {"Failed to load image: cannot open resource"}
                     /\ image' = LoadFailureImage(r.image)
                     /\ original_image' = LoadFailureImage(Open(f))
                     /\ canvas' = r.canvas
                ELSE /\ msgs' = {}
                     /\ image' = r.image
                     /\ original_image' = Open(f)
                     /\ canvas' = r.canvas
    /\ UNCHANGED <<topText, bottomText, current_font_size, current_padding,
                   current_top_left_margin, current_bottom_padding, startup, uncaught>>

\* random_gacha when the images folder does not exist.
random_gacha_missing ==
    /\ Alive
    /\ op' = "random_gacha"
    /\ msgs' = {"Images folder not found"}
    /\ effects' = {}
    /\ UNCHANGED <<session, startup, uncaught>>

\* random_gacha_empty dropping the session's image as the except branch does.
random_gacha_empty_reset(files) ==
    /\ Alive
    /\ Listed(files) = {}
    /\ op' = "random_gacha"
    /\ msgs' = {"No images found in images folder!"}
    /\ effects' = {}
    /\ image' = None
    /\ original_image' = None
    /\ UNCHANGED <<topText, bottomText, current_font_size, current_padding,
                   current_top_left_margin, current_bottom_padding, canvas,
                   startup, uncaught>>

\* random_gacha when the folder holds files but none ends in .jpg/.png.
random_gacha_empty(files) ==
    /\ Alive
    /\ Listed(files) = {}
    /\ op' = "random_gacha"
    /\ msgs' = {"No images found in images folder!"}
    /\ effects' = {}
    /\ UNCHANGED <<session, startup, uncaught>>

\* random_gacha choosing file f of the listing and caption number c.
\* ok1, ok2: font loads of the two textChanged slots; ok3: of the direct call.
random_gacha(files, f, c, ok1, ok2, ok3) ==
    /\ Alive
    /\ f \in Listed(files)
    /\ c \in 1..Len(captions)
    /\ op' = "random_gacha"
    /\ effects' = {}
    /\ UNCHANGED <<current_font_size, current_padding, current_top_left_margin,
                   current_bottom_padding, startup>>
    /\ IF ~f.readable
       THEN /\ msgs' = {"Failed to load image: cannot identify image file"}
            /\ image' = LoadFailureImage(image)
            /\ original_image' = LoadFailureImage(original_image)
            /\ UNCHANGED <<topText, bottomText, canvas, uncaught>>
       ELSE LET orig == Open(f)
                s0 == [image |-> Open(f), canvas |-> canvas, raised |-> "none"]
                s1 == TextChangedSlot(s0, orig, captions[c] # topText,
                                      captions[c], bottomText, ok1)
                s2 == TextChangedSlot(s1, orig, bottomText # "", captions[c], "", ok2)
            IN  IF s2.raised # "none"
                THEN \* a slot raised: the process aborts inside setText
                     /\ msgs' = {}
                     /\ image' = s2.image
                     /\ original_image' = orig
                     /\ topText' = captions[c]
                     /\ bottomText' = IF s1.raised # "none" THEN bottomText ELSE ""
                     /\ canvas' = s2.canvas
                     /\ uncaught' = s2.raised
                ELSE LET r == update_canvas(s2.image, orig, captions[c], "", Params,
                                            s2.canvas, font_path, ok3)
                     IN  /\ topText' = captions[c]
                         /\ bottomText' = ""
                         /\ canvas' = r.canvas
                         /\ UNCHANGED uncaught
                         /\ IF r.raised # "none"
                            THEN /\ msgs' = {"Failed to load image: cannot open resource"}
                                 /\ image' = LoadFailureImage(r.image)
                                 /\ original_image' = LoadFailureImage(orig)
                            ELSE /\ msgs' = {}
                                 /\ image' = r.image
                                 /\ original_image' = orig

\* save_image; writeOK: makedirs and Image.save succeed.
save_image(writeOK) ==
    /\ Alive
    /\ op' = "save_image"
    /\ IF HasImage(image)
       THEN /\ effects' = {"save_output"}
            /\ msgs' = IF writeOK THEN {"Image saved"} ELSE {}
            /\ uncaught' = IF writeOK THEN "none" ELSE "OSError"
       ELSE /\ effects' = {}
            /\ msgs' = {"No image to save!"}
            /\ UNCHANGED uncaught
    /\ UNCHANGED <<session, startup>>

\* clear_canvas; ok1, ok2: font loads of the two textChanged slots.
clear_canvas(ok1, ok2) ==
    LET top == LineEditClear(topText)
        bottom == LineEditClear(bottomText)
        s0 == [image |-> image, canvas |-> canvas, raised |-> "none"]
        s1 == TextChangedSlot(s0, original_image, top # topText, top, bottomText, ok1)
        s2 == TextChangedSlot(s1, original_image, bottom # bottomText, top, bottom, ok2)
    IN  /\ Alive
        /\ op' = "clear_canvas"
        /\ msgs' = {}
        /\ effects' = {}
        /\ topText' = top
        /\ UNCHANGED <<current_font_size, current_padding, current_top_left_margin,
                       current_bottom_padding, startup>>
        /\ IF s2.raised # "none"
           THEN /\ image' = s2.image
                /\ UNCHANGED original_image
                /\ bottomText' = IF s1.raised # "none" THEN bottomText ELSE bottom
                /\ canvas' = s2.canvas
                /\ uncaught' = s2.raised
           ELSE /\ image' = None
                /\ original_image' = None
                /\ bottomText' = bottom
                /\ canvas' = None
                /\ UNCHANGED uncaught

\* Calls share_to_x makes when it stops at the given step.
ShareCalls(failAt) ==
    IF failAt = "save" THEN {"save_temp"}
    ELSE IF failAt = "upload" THEN {"save_temp", "media_upload"}
    ELSE IF failAt = "tweet" THEN {"save_temp", "media_upload", "create_tweet"}
    ELSE {"save_temp", "media_upload", "create_tweet", "remove_temp"}

\* PostingReady testing the client only.
PostingReadyClientOnly(client, api) == client

\* The posting guard of share_to_x.
PostingReady(client, api) == client /\ api

\* share_to_x; confirm: the answer to the dialog; failAt: the call that
\* raises ("none": all succeed).
share_to_x(confirm, failAt) ==
    /\ Alive
    /\ op' = "share_to_x"
    /\ IF ~HasImage(image)
       THEN /\ msgs' = {"No image to post!"}
            /\ effects' = {}
       ELSE IF ~PostingReady(twitter_client, twitter_api)
       THEN /\ msgs' = {"X API not initialized."}
            /\ effects' = {}
       ELSE IF ~confirm
       THEN /\ msgs' = {}
            /\ effects' = {}
       ELSE /\ effects' = ShareCalls(failAt)
            /\ msgs' = IF failAt = "none" THEN {"Meme posted to X!"}
                       ELSE {"Failed to post to X"}
    /\ UNCHANGED <<session, startup, uncaught>>

\* A slider handler's tail: if self.image: self.update_canvas()
SliderRedraw(p, fontOK) ==
    LET r == update_canvas(image, original_image, topText, bottomText, p,
                           canvas, font_path, fontOK)
    IN  IF image # None
        THEN /\ image' = r.image
             /\ canvas' = r.canvas
             /\ uncaught' = r.raised
        ELSE UNCHANGED <<image, canvas, uncaught>>

update_font_size(value, fontOK) ==
    /\ Alive
    /\ value # current_font_size
    /\ op' = "update_font_size"
    /\ msgs' = {}
    /\ effects' = {}
    /\ current_font_size' = value
    /\ SliderRedraw([Params EXCEPT !.font_size = value], fontOK)
    /\ UNCHANGED <<original_image, topText, bottomText, current_padding,
                   current_top_left_margin, current_bottom_padding, startup>>

update_padding(value, fontOK) ==
    /\ Alive
    /\ value # current_padding
    /\ op' = "update_padding"
    /\ msgs' = {}
    /\ effects' = {}
    /\ current_padding' = value
    /\ SliderRedraw([Params EXCEPT !.padding = value], fontOK)
    /\ UNCHANGED <<original_image, topText, bottomText, current_font_size,
                   current_top_left_margin, current_bottom_padding, startup>>

update_top_left_margin(value, fontOK) ==
    /\ Alive
    /\ value # current_top_left_margin
    /\ op' = "update_top_left_margin"
    /\ msgs' = {}
    /\ effects' = {}
    /\ current_top_left_margin' = value
    /\ SliderRedraw([Params EXCEPT !.margin = value], fontOK)
    /\ UNCHANGED <<original_image, topText, bottomText, current_font_size,
                   current_padding, current_bottom_padding, startup>>

update_bottom_padding(value, fontOK) ==
    /\ Alive
    /\ value # current_bottom_padding
    /\ op' = "update_bottom_padding"
    /\ msgs' = {}
    /\ effects' = {}
    /\ current_bottom_padding' = value
    /\ SliderRedraw([Params EXCEPT !.bottom_padding = value], fontOK)
    /\ UNCHANGED <<original_image, topText, bottomText, current_font_size,
                   current_padding, current_top_left_margin, startup>>

\* The user edits the top text: textChanged runs update_canvas.
edit_top_text(t, fontOK) ==
    LET r == update_canvas(image, original_image, t, bottomText, Params,
                           canvas, font_path, fontOK)
    IN  /\ Alive
        /\ t # topText
        /\ op' = "topTextEdit.textChanged"
        /\ msgs' = {}
        /\ effects' = {}
        /\ topText' = t
        /\ image' = r.image
        /\ canvas' = r.canvas
        /\ uncaught' = r.raised
        /\ UNCHANGED <<original_image, bottomText, current_font_size, current_padding,
                       current_top_left_margin, current_bottom_padding, startup>>

\* The user edits the bottom text.
edit_bottom_text(t, fontOK) ==
    LET r == update_canvas(image, original_image, topText, t, Params,
                           canvas, font_path, fontOK)
    IN  /\ Alive
        /\ t # bottomText
        /\ op' = "bottomTextEdit.textChanged"
        /\ msgs' = {}
        /\ effects' = {}
        /\ bottomText' = t
        /\ image' = r.image
        /\ canvas' = r.canvas
        /\ uncaught' = r.raised
        /\ UNCHANGED <<original_image, topText, current_font_size, current_padding,
                       current_top_left_margin, current_bottom_padding, startup>>

Next ==
    \/ load_image_cancel
    \/ \E f \in ImageFiles, fontOK \in FontOutcomes : load_image(f, fontOK)
    \/ random_gacha_missing
    \/ \E files \in FolderListings : random_gacha_empty(files)
    \/ \E files \in FolderListings : \E f \in Listed(files), c \in 1..Len(captions),
          ok1 \in FontOutcomes, ok2 \in FontOutcomes, ok3 \in FontOutcomes :
            random_gacha(files, f, c, ok1, ok2, ok3)
    \/ \E writeOK \in BOOLEAN : save_image(writeOK)
    \/ \E ok1 \in FontOutcomes, ok2 \in FontOutcomes : clear_canvas(ok1, ok2)
    \/ \E confirm \in BOOLEAN, failAt \in {"none", "save", "upload", "tweet"} :
          share_to_x(confirm, failAt)
    \/ \E value \in FontSizes, fontOK \in FontOutcomes : update_font_size(value, fontOK)
    \/ \E value \in Paddings, fontOK \in FontOutcomes : update_padding(value, fontOK)
    \/ \E value \in Margins, fontOK \in FontOutcomes : update_top_left_margin(value, fontOK)
    \/ \E value \in BottomPaddings, fontOK \in FontOutcomes : update_bottom_padding(value, fontOK)
    \/ \E t \in UserTexts, fontOK \in FontOutcomes : edit_top_text(t, fontOK)
    \/ \E t \in UserTexts, fontOK \in FontOutcomes : edit_bottom_text(t, fontOK)

Spec == Init /\ [][Next]_vars

\* Startup over every posting environment (tweepy importable or not, every
\* subset of the credentials, every failing constructor), followed by the
\* button and text handlers.
InitPosting ==
    \E tw \in BOOLEAN, keys \in SUBSET CredNames, initFail \in {"none", "Client", "API"} :
        Construct(FALSE, SessionCsv, tw, keys, initFail)

NextPosting ==
    \/ load_image_cancel
    \/ \E f \in ImageFiles, fontOK \in FontOutcomes : load_image(f, fontOK)
    \/ random_gacha_missing
    \/ \E files \in FolderListings : random_gacha_empty(files)
    \/ \E files \in FolderListings : \E f \in Listed(files), c \in 1..Len(captions),
          ok1 \in FontOutcomes, ok2 \in FontOutcomes, ok3 \in FontOutcomes :
            random_gacha(files, f, c, ok1, ok2, ok3)
    \/ \E writeOK \in BOOLEAN : save_image(writeOK)
    \/ \E ok1 \in FontOutcomes, ok2 \in FontOutcomes : clear_canvas(ok1, ok2)
    \/ \E confirm \in BOOLEAN, failAt \in {"none", "save", "upload", "tweet"} :
          share_to_x(confirm, failAt)
    \/ \E t \in UserTexts, fontOK \in FontOutcomes : edit_top_text(t, fontOK)
    \/ \E t \in UserTexts, fontOK \in FontOutcomes : edit_bottom_text(t, fontOK)

SpecPosting == InitPosting /\ [][NextPosting]_vars

\* Startup over every caption file, followed by the handlers that read or
\* follow self.captions.
InitCaptions ==
    \E csv \in CaptionFiles : Construct(FALSE, csv, FALSE, {}, "none")

NextCaptions ==
    \/ random_gacha_missing
    \/ \E files \in FolderListings : random_gacha_empty(files)
    \/ \E files \in FolderListings : \E f \in Listed(files), c \in 1..Len(captions),
          ok1 \in FontOutcomes, ok2 \in FontOutcomes, ok3 \in FontOutcomes :
            random_gacha(files, f, c, ok1, ok2, ok3)
    \/ \E ok1 \in FontOutcomes, ok2 \in FontOutcomes : clear_canvas(ok1, ok2)

SpecCaptions == InitCaptions /\ [][NextCaptions]_vars

\* Layout of the bottom text over every image height up to MaxHeight, every
\* bottom padding up to MaxBottomPadding and font sizes whose text heights
\* lie below, inside and above that range.
LayoutFiles ==
    { [name |-> "img", ext |-> ".png", height |-> h, readable |-> TRUE] : h \in 1..MaxHeight }

LayoutFontSizes == {5, 10, 15, DefaultFontSize}

InitLayout == Construct(TRUE, SessionCsv, FALSE, {}, "none")

NextLayout ==
    \/ \E f \in LayoutFiles, fontOK \in FontOutcomes : load_image(f, fontOK)
    \/ \E t \in UserTexts, fontOK \in FontOutcomes : edit_bottom_text(t, fontOK)
    \/ \E value \in LayoutFontSizes, fontOK \in FontOutcomes : update_font_size(value, fontOK)
    \/ \E value \in 0..MaxBottomPadding, fontOK \in FontOutcomes :
          update_bottom_padding(value, fontOK)

SpecLayout == InitLayout /\ [][NextLayout]_vars

\* ---------------------------------------------------------------- claims
Pristine(img) == img # None /\ img.ops = <<>>

\* The draw of the bottom text in the current image (the last draw made).
BottomDraw == image.ops[Len(image.ops)]

HasBottomDraw == Alive /\ image # None /\ bottomText # "" /\ Len(image.ops) > 0

\* C1: while the session runs, a non-empty current image is the render of
\* the retained original with the current texts and parameters, and the
\* retained original is the decoded file with nothing drawn on it.
C1_ImageIsRenderOfOriginal ==
    (Alive /\ image # None) =>
        /\ Pristine(original_image)
        /\ image = render(original_image, topText, bottomText, Params, font_path)

\* C1 witness: a slider move has re-rendered an image that carries both texts.
C1_Witness ==
    /\ Alive
    /\ op = "update_bottom_padding"
    /\ image # None
    /\ Len(image.ops) = 2
    /\ original_image.ops = <<>>

\* C2: the bottom text is drawn at imageHeight - textHeight - bottomPadding
\* when bottomPadding <= imageHeight - textHeight, and at
\* max(10, imageHeight - textHeight) when bottomPadding exceeds that bound.
C2_BottomPlacement ==
    (Alive /\ image # None /\ bottomText # "") =>
        LET H == image.height
            th == TextHeight(font_path, current_font_size)
            bp == current_bottom_padding
        IN  /\ Len(image.ops) > 0
            /\ BottomDraw.text = bottomText
            /\ BottomDraw.y = IF bp <= H - th THEN H - th - bp
                              ELSE IF H - th >= 10 THEN H - th ELSE 10

\* C2 witness: a bottom padding larger than imageHeight - textHeight has
\* moved the bottom text to imageHeight - textHeight, above 10.
C2_Witness ==
    /\ HasBottomDraw
    /\ op = "update_bottom_padding"
    /\ current_bottom_padding > image.height - TextHeight(font_path, current_font_size)
    /\ BottomDraw.y = image.height - TextHeight(font_path, current_font_size)
    /\ BottomDraw.y > 10

\* C3: the bottom text lies inside the image: 0 <= yPosition and
\* yPosition + textHeight <= imageHeight.
C3_BottomInsideImage ==
    HasBottomDraw =>
        /\ 0 <= BottomDraw.y
        /\ BottomDraw.y + TextHeight(font_path, current_font_size) <= image.height

CorruptFileMsg == {"Failed to load image: cannot identify image file"}

captionsAndParams == <<topText, bottomText, current_font_size, current_padding,
                       current_top_left_margin, current_bottom_padding>>

\* A step of load_image or random_gacha in which Image.open raised.
CorruptLoadStep ==
    op' \in {"load_image", "random_gacha"} /\ msgs' = CorruptFileMsg

\* C4 as stated: a load or random-pick that fails on a corrupt file leaves
\* the current image and the retained original as they were.
C4_StatePreservedOnLoadFailure ==
    [][CorruptLoadStep => (image' = image /\ original_image' = original_image)]_vars

\* C4 amended: a load or random-pick that fails on a corrupt file is
\* reported and empties both the current image and the retained original;
\* captions and parameters stay.
C4_ImageDroppedOnLoadFailure ==
    [][CorruptLoadStep =>
          /\ image' = None
          /\ original_image' = None
          /\ uncaught' = "none"
          /\ UNCHANGED captionsAndParams]_vars

\* C4 witness: a load failed while an image was on display: the canvas
\* still shows it, the session no longer holds it.
C4_Witness ==
    /\ op = "load_image"
    /\ msgs = CorruptFileMsg
    /\ canvas # None
    /\ image = None
    /\ original_image = None

\* C5: random-pick over a missing folder or a folder without .jpg/.png
\* reports it and changes neither images, captions nor parameters.
C5_EmptyCatalogNoChange ==
    [][(op' = "random_gacha"
          /\ msgs' \in {{"Images folder not found"}, {"No images found in images folder!"}})
        => UNCHANGED <<image, original_image, captionsAndParams, canvas, uncaught>>]_vars

\* C5 witness: random-pick found no image while the session held a
\* captioned image.
C5_Witness ==
    /\ op = "random_gacha"
    /\ msgs = {"No images found in images folder!"}
    /\ image # None
    /\ topText # ""

\* Posting was disabled when the form was constructed.
DisabledAtStartup ==
    \/ ~tweepy
    \/ api_keys # CredNames
    \/ ~twitter_client
    \/ ~twitter_api

\* C6: when posting was disabled at startup, no handler ever writes the
\* temp file, uploads or tweets, the share button is disabled, and share
\* on an image ends with the warning.
C6_DisabledNeverPosts ==
    DisabledAtStartup =>
        /\ ~shareEnabled
        /\ effects \cap {"save_temp", "media_upload", "create_tweet", "remove_temp"} = {}
        /\ (op = "share_to_x" /\ image # None) => msgs = {"X API not initialized."}

\* C6 witness: share was invoked on an image with tweepy.Client built but
\* posting disabled, and returned after the warning.
C6_Witness ==
    /\ op = "share_to_x"
    /\ image # None
    /\ DisabledAtStartup
    /\ twitter_client
    /\ msgs = {"X API not initialized."}
    /\ effects = {}

\* C7: save or share without a current image shows its warning, makes no
\* file or network call and changes nothing.
C7_NoContentIsNoOp ==
    [][(op' \in {"save_image", "share_to_x"} /\ image = None) =>
          /\ msgs' = IF op' = "save_image" THEN {"No image to save!"}
                     ELSE {"No image to post!"}
          /\ effects' = {}
          /\ UNCHANGED <<session, startup, uncaught>>]_vars

\* C7 witness: share was invoked after a failed load had emptied the session.
C7_Witness ==
    /\ op = "share_to_x"
    /\ msgs = {"No image to post!"}
    /\ image = None
    /\ canvas # None

\* C8: no failure leaves a handler.
C8_NoFailureEscapes == uncaught = "none"

ButtonOps == {"load_image", "random_gacha", "save_image", "share_to_x"}

DefaultParams ==
    [font_size |-> 75, padding |-> 20, margin |-> 10, bottom_padding |-> 20]

\* C9 as stated: clear empties both captions and returns the parameters to
\* their defaults; load, random-pick, save and share change neither.
C9_ResetOnlyOnClear ==
    [][/\ (op' = "clear_canvas" /\ uncaught' = "none") =>
            (topText' = "" /\ bottomText' = "" /\ Params' = DefaultParams)
       /\ (op' \in ButtonOps) => UNCHANGED captionsAndParams]_vars

\* C9 amended: clear empties both captions and leaves the parameters as
\* set; load, save and share change neither captions nor parameters;
\* random-pick leaves the parameters and, when it changes a caption, sets
\* the top one to a catalogue caption and the bottom one to empty.
C9_ClearEmptiesCaptionsOnly ==
    [][/\ (op' = "clear_canvas" /\ uncaught' = "none") =>
            (topText' = "" /\ bottomText' = "" /\ Params' = Params)
       /\ (op' \in ButtonOps \ {"random_gacha"}) => UNCHANGED captionsAndParams
       /\ (op' = "random_gacha") =>
            /\ Params' = Params
            /\ \/ UNCHANGED <<topText, bottomText>>
               \/ /\ \E c \in 1..Len(captions) : topText' = captions[c]
                  /\ bottomText' \in {"", bottomText}]_vars

\* C9 witness: clear has run with a slider away from its default and the
\* parameter is still there.
C9_Witness ==
    /\ op = "clear_canvas"
    /\ Alive
    /\ topText = ""
    /\ bottomText = ""
    /\ current_font_size # 75
    /\ current_bottom_padding # 20

\* The non-empty first-column values of the rows read, in file order.
NonEmptyFirstColumn(rows) ==
    LET kept == SelectSeq(rows, LAMBDA r : r # <<>> /\ r[1] # "")
    IN  [i \in 1..Len(kept) |-> kept[i][1]]

\* C10: the captions are the non-empty first-column values of the file in
\* order; when the file is absent, unreadable or yields no caption they are
\* the 15 fallback captions, startup goes on and a warning is shown.
C10_CaptionLoading ==
    LET values == NonEmptyFirstColumn(captions_csv.rows)
    IN  IF captions_csv.status # "ok" \/ values = <<>>
        THEN /\ uncaught = "none"
             /\ captions = FallbackCaptions
             /\ Len(captions) = 15
             /\ op = "__init__" =>
                  msgs \cap {"Captions file not found", "Failed to load captions"} # {}
        ELSE captions = values

\* C11: once a handler has completed, the canvas is cleared exactly when
\* the session holds no current image, and otherwise shows the current
\* image, which is its latest render.
C11_CanvasShowsCurrentImage ==
    Alive =>
        /\ (image = None) <=> (canvas = None)
        /\ (image # None) => (canvas = image)

====
